---- MODULE Spec2Model ----
(***************************************************************************)
(* A model of rpi_vidlooper/vidlooper.py: the VidLooper object, its        *)
(* switch_vid transition (run by GPIO callback threads and, for autostart, *)
(* by the main thread), the control loop of start() with its non-looping   *)
(* poll, and the teardown __del__ (called from start's finally and as the  *)
(* object's finalizer).  Player processes are modelled by their life       *)
(* cycle: running, signalled (SIGINT sent; it ends at some later time),    *)
(* exited (ended by itself, not yet waited for) and reaped (waited for,    *)
(* pid gone).  The command-line parser of the GPIO pin specification       *)
(* (_GpioParser) and the constructor __init__ are modelled as step         *)
(* machines of their own, over the inputs they are given.                  *)
(***************************************************************************)
EXTENDS Integers, Sequences, FiniteSets, TLC

(* ------------------------------ bounds -------------------------------- *)

\* Number of pin events delivered in one run.
MaxPress == 2

\* Number of callback contexts that may run switch_vid concurrently.
MaxCallbacks == 2

\* One player launch per pin event, plus the autostart launch.
MaxProcs == MaxPress + 1

\* Length of a GPIO pin specification string.
MaxSpecLen == 5

\* Number of videos given on the command line, and of pins given.
MaxVideos == 2
MaxPins == 2

(* --------------------------- configuration ---------------------------- *)

\* Python's None, for a process handle and for an output pin.
None == 0

\* The main thread, as an actor running switch_vid (callbacks are 1..).
Main == 0

\* The value of _mutex when no actor holds it.
Unlocked == -1

\* No filename: the value of _active_vid when it is None.
NoVid == "None"

\* gpio_pins in insertion order: input pin -> output pin (or None).
gpio_pins ==
    << [in |-> 26, out |-> 21], [in |-> 19, out |-> None], [in |-> 13, out |-> 16] >>

\* The video lists a looper is constructed with (at most one per input pin).
VideoLists == { <<"a.mp4", "b.mp4">>, <<"a.mp4", "b.mp4", "a.mp4">> }

\* in_pins: the tuple of input pins.
in_pins == [i \in 1..Len(gpio_pins) |-> gpio_pins[i].in]

\* A pin that is not in the mapping, and the pins switch_vid is called with.
UnknownPin == 5
EventPins == { in_pins[i] : i \in 1..Len(in_pins) } \cup {UnknownPin}

\* The output pins that are bound (not None).
OutPins == { gpio_pins[i].out : i \in { j \in 1..Len(gpio_pins) : gpio_pins[j].out # None } }

\* in_pins.index(pin): the position of pin, 0 when it is not an input pin.
IndexOf(pin) ==
    IF \E i \in 1..Len(in_pins) : in_pins[i] = pin
    THEN CHOOSE i \in 1..Len(in_pins) : in_pins[i] = pin
    ELSE 0

Callbacks == 1..MaxCallbacks
Actors == {Main} \cup Callbacks
Pids == 1..MaxProcs

\* The configurations of a run (the keyword arguments of __init__).
\* Debug mode changes only what start and __del__ do to the terminal: it is
\* combined with one setting of the other options.  A splash image is used
\* only with autostart.
Configs ==
    { c \in [ restart_on_press : BOOLEAN, loop : BOOLEAN, autostart : BOOLEAN,
              splash : BOOLEAN, debug : BOOLEAN, videos : VideoLists ] :
        /\ c.debug => (c.autostart /\ ~c.splash /\ c.loop /\ ~c.restart_on_press
                       /\ Len(c.videos) = 2)
        /\ c.splash => c.autostart }

(* ------------------------------- state -------------------------------- *)

VARIABLES
    parse,        \* the _GpioParser call: pc, values, pin_pairs, i, gpio_dict, error
    ctor,         \* the __init__ call: pc, args, self (gpio_pins, videos), error
    cfg,          \* the configuration, fixed at construction
    _p,           \* self._p: the pid of the player process held, or None
    _active_vid,  \* self._active_vid: a filename, or NoVid
    _splashproc,  \* "None", "running" or "killed"
    _mutex,       \* the actor holding the lock, or Unlocked
    out,          \* level of every bound output pin
    gpio,         \* "unset", "setup", "detect" (callbacks registered), "cleaned"
    proc,         \* pid -> [st, vid]: life cycle of every player, and the video
                  \* it is playing while it runs
    sv,           \* actor -> its switch_vid invocation (pc, pin, locals, tallies)
    main,         \* the main thread: pc, the poll's local pid, how it ended
    npress,       \* pin events delivered so far
    tdcount,      \* number of times the teardown sequence was entered
    tdlog,        \* steps performed by the current (or last) teardown
    snap,         \* PlaybackState and outputs when the lock was acquired
    last          \* the pin and the outcome of the switch_vid call that returned last

vars == << parse, ctor, cfg, _p, _active_vid, _splashproc, _mutex, out, gpio, proc,
           sv, main, npress, tdcount, tdlog, snap, last >>

\* No parser call and no constructor call is being followed.
NoParse ==
    [ pc |-> "none", values |-> << >>, pin_pairs |-> << >>, i |-> 0,
      gpio_dict |-> << >>, error |-> "none" ]
NoCtor ==
    [ pc |-> "none",
      args |-> [ videos |-> [given |-> FALSE, list |-> << >>],
                 gpio_pins |-> [given |-> FALSE, dict |-> << >>],
                 listdir |-> {}, exists |-> {}, audio |-> "hdmi" ],
      self |-> [ gpio_pins |-> << >>, videos |-> << >> ], error |-> "none" ]

\* An actor that is not inside switch_vid.
IdleSv ==
    [ pc |-> "idle", pin |-> 0, newp |-> None, wasActive |-> FALSE,
      stops |-> 0, starts |-> 0 ]

NoSnap == [ held |-> FALSE, p |-> None, vid |-> NoVid, out |-> [o \in OutPins |-> "LOW"],
            dirty |-> FALSE ]

Init ==
    /\ parse = NoParse
    /\ ctor = NoCtor
    /\ cfg \in Configs
    /\ _p = None
    /\ _active_vid = NoVid
    /\ _splashproc = "None"
    /\ _mutex = Unlocked
    /\ out = [o \in OutPins |-> "LOW"]
    /\ gpio = "unset"
    /\ proc = [q \in Pids |-> [st |-> "none", vid |-> NoVid]]
    /\ sv = [a \in Actors |-> IdleSv]
    /\ main = [pc |-> "setup", pid |-> -1, target |-> None, caller |-> "none"]
    /\ npress = 0
    /\ tdcount = 0
    /\ tdlog = << >>
    /\ snap = NoSnap
    /\ last = [pin |-> 0, result |-> "none"]

\* The looper process itself is still running.
Alive == main.pc \notin {"terminated", "killed"}

(* ------------------------- player processes --------------------------- *)

\* The smallest pid not yet given to a process.
NextPid == CHOOSE q \in Pids : proc[q].st = "none" /\ \A r \in Pids : r < q => proc[r].st # "none"

\* A process that was started and has neither exited nor been sent a signal.
Live(q) == proc[q].st = "running"

\* os.killpg(os.getpgid(pid), SIGINT): the process table after the signal.
\* A process that has already ended (and is not reaped) is left as it is.
Signalled(q) ==
    [proc EXCEPT ![q] = IF @.st = "running" THEN [st |-> "signalled", vid |-> NoVid] ELSE @]

\* os.getpgid fails with ProcessLookupError for a pid that was waited for.
Gone(q) == proc[q].st = "reaped"

(* ------------------------------ switch_vid ---------------------------- *)

\* GPIO.output works only on a channel set up as an output.
GpioReady == gpio \in {"setup", "detect"}

\* Mutant of PinLevel: the other outputs are not lowered.
PinLevel_AlwaysHigh(in_pin, pin) == "HIGH"

\* The level switch_vid writes to the output pin of in_pin for an event on pin.
PinLevel(in_pin, pin) == IF in_pin = pin THEN "HIGH" ELSE "LOW"

\* The loop over gpio_pins.items() of switch_vid, from position i on.
RECURSIVE WriteOutputs(_, _, _)
WriteOutputs(o, i, pin) ==
    IF i > Len(gpio_pins) THEN o
    ELSE WriteOutputs(IF gpio_pins[i].out # None
                      THEN [o EXCEPT ![gpio_pins[i].out] = PinLevel(gpio_pins[i].in, pin)]
                      ELSE o,
                      i + 1, pin)

\* Every bound output pin low.
AllLow == [o \in OutPins |-> "LOW"]

\* Mutant of CanAcquire: the lock does not exclude.
CanAcquire_NoExclusion == TRUE

\* The with-statement enters only when no actor holds the lock.
CanAcquire == _mutex = Unlocked

\* Mutant of NeedsSwitch: the restart_on_press flag is read inverted.
NeedsSwitch_FlagInverted(filename) == filename # _active_vid \/ ~cfg.restart_on_press

\* Mutant of NeedsSwitch: the player is replaced on every event.
NeedsSwitch_Always(filename) == TRUE

\* The condition under which switch_vid replaces the player.
NeedsSwitch(filename) == filename # _active_vid \/ cfg.restart_on_press

\* self.videos[self.in_pins.index(pin)] is defined (no ValueError, no IndexError).
HasVideo(pin) == IndexOf(pin) # 0 /\ IndexOf(pin) <= Len(cfg.videos)

\* The filename switch_vid resolves for pin.
Filename(pin) == cfg.videos[IndexOf(pin)]

\* Where the main thread goes when its autostart call of switch_vid returns
\* or raises (the call is made before the try block of start).
MainAfterSv(result) ==
    IF result \notin {"ok", "noop"}
    THEN [main EXCEPT !.pc = "exited"]
    ELSE [main EXCEPT !.pc = "detect"]

\* Actor a may take a step of switch_vid.
Runs(a) ==
    /\ Alive
    /\ a = Main => main.pc = "autostart_sv"

\* switch_vid returns (or raises) in actor a: the lock is released.  The
\* pin and the outcome of the call are recorded in last.
Return(a, result) ==
    /\ sv' = [sv EXCEPT ![a] = IdleSv]
    /\ last' = [pin |-> sv[a].pin, result |-> result]
    /\ _mutex' = Unlocked
    /\ snap' = NoSnap
    /\ main' = IF a = Main THEN MainAfterSv(result) ELSE main

\* An edge event: switch_vid(pin) is called on a callback context, by the
\* GPIO library for a falling edge on an input pin or by another caller of
\* the method (the idle contexts are interchangeable: the lowest one takes
\* the event).
Press(a, pin) ==
    /\ a \in Callbacks /\ Runs(a)
    /\ sv[a].pc = "idle"
    /\ \A b \in Callbacks : b < a => sv[b].pc # "idle"
    /\ gpio = "detect"
    /\ npress < MaxPress
    /\ npress' = npress + 1
    /\ sv' = [sv EXCEPT ![a] = [IdleSv EXCEPT !.pc = "acquire", !.pin = pin]]
    /\ UNCHANGED << parse, ctor, cfg, _p, _active_vid, _splashproc, _mutex, out, gpio, proc, main,
                    tdcount, tdlog, snap, last >>

\* with self._mutex:
SvAcquire(a) ==
    /\ Runs(a) /\ sv[a].pc = "acquire"
    /\ CanAcquire
    /\ _mutex' = a
    /\ sv' = [sv EXCEPT ![a].pc = "outputs"]
    /\ snap' = [held |-> TRUE, p |-> _p, vid |-> _active_vid, out |-> out, dirty |-> FALSE]
    /\ UNCHANGED << parse, ctor, cfg, _p, _active_vid, _splashproc, out, gpio, proc, main,
                    npress, tdcount, tdlog, last >>

\* Update the output pins' states.
SvOutputs(a) ==
    /\ Runs(a) /\ sv[a].pc = "outputs"
    /\ IF OutPins # {} /\ ~GpioReady
       THEN Return(a, "GpioError") /\ UNCHANGED out
       ELSE /\ out' = WriteOutputs(out, 1, sv[a].pin)
            /\ sv' = [sv EXCEPT ![a].pc = "compare"]
            /\ UNCHANGED << _mutex, snap, main, last >>
    /\ UNCHANGED << parse, ctor, cfg, _p, _active_vid, _splashproc, gpio, proc, npress, tdcount, tdlog >>

\* filename = self.videos[...]; if filename != self._active_vid or restart_on_press
SvCompare(a) ==
    /\ Runs(a) /\ sv[a].pc = "compare"
    /\ IF IndexOf(sv[a].pin) = 0
       THEN Return(a, "ValueError")
       ELSE IF ~HasVideo(sv[a].pin)
       THEN Return(a, "IndexError")
       ELSE IF NeedsSwitch(Filename(sv[a].pin))
            THEN /\ sv' = [sv EXCEPT ![a].pc = "kill_check",
                                     ![a].wasActive = (Filename(sv[a].pin) = _active_vid)]
                 /\ UNCHANGED << _mutex, snap, main, last >>
            ELSE Return(a, "noop")
    /\ UNCHANGED << parse, ctor, cfg, _p, _active_vid, _splashproc, out, gpio, proc, npress,
                    tdcount, tdlog >>

\* _kill_process: if self._p is not None
SvKillCheck(a) ==
    /\ Runs(a) /\ sv[a].pc = "kill_check"
    /\ sv' = [sv EXCEPT ![a].pc = IF _p # None THEN "kill_signal" ELSE "popen"]
    /\ UNCHANGED << parse, ctor, cfg, _p, _active_vid, _splashproc, _mutex, out, gpio, proc, main,
                    npress, tdcount, tdlog, snap, last >>

\* _kill_process: os.killpg(os.getpgid(self._p.pid), signal.SIGINT)
SvKillSignal(a) ==
    /\ Runs(a) /\ sv[a].pc = "kill_signal"
    /\ IF _p = None \/ Gone(_p)
       THEN Return(a, "KillError") /\ UNCHANGED proc
       ELSE /\ proc' = Signalled(_p)
            /\ sv' = [sv EXCEPT ![a].pc = "kill_clear", ![a].stops = @ + 1]
            /\ UNCHANGED << _mutex, snap, main, last >>
    /\ UNCHANGED << parse, ctor, cfg, _p, _active_vid, _splashproc, out, gpio, npress, tdcount, tdlog >>

\* _kill_process: self._p = None
SvKillClear(a) ==
    /\ Runs(a) /\ sv[a].pc = "kill_clear"
    /\ _p' = None
    /\ sv' = [sv EXCEPT ![a].pc = "popen"]
    /\ UNCHANGED << parse, ctor, cfg, _active_vid, _splashproc, _mutex, out, gpio, proc, main,
                    npress, tdcount, tdlog, snap, last >>

\* Popen(cmd + [filename], ...): the player starts, or the launch fails.
SvPopen(a) ==
    /\ Runs(a) /\ sv[a].pc = "popen"
    /\ \/ /\ proc' = [proc EXCEPT ![NextPid] = [st |-> "running", vid |-> Filename(sv[a].pin)]]
          /\ sv' = [sv EXCEPT ![a].pc = "assign_p", ![a].newp = NextPid,
                              ![a].starts = @ + 1]
          /\ UNCHANGED << _mutex, snap, main, last >>
       \/ /\ Return(a, "LaunchError")
          /\ UNCHANGED proc
    /\ UNCHANGED << parse, ctor, cfg, _p, _active_vid, _splashproc, out, gpio, npress, tdcount, tdlog >>

\* self._p = <the Popen object>
SvAssignP(a) ==
    /\ Runs(a) /\ sv[a].pc = "assign_p"
    /\ _p' = sv[a].newp
    /\ sv' = [sv EXCEPT ![a].pc = "assign_vid"]
    /\ UNCHANGED << parse, ctor, cfg, _active_vid, _splashproc, _mutex, out, gpio, proc, main,
                    npress, tdcount, tdlog, snap, last >>

\* self._active_vid = filename, and the with-statement releases the lock.
SvAssignVid(a) ==
    /\ Runs(a) /\ sv[a].pc = "assign_vid"
    /\ _active_vid' = Filename(sv[a].pin)
    /\ Return(a, "ok")
    /\ UNCHANGED << parse, ctor, cfg, _p, _splashproc, out, gpio, proc, npress, tdcount, tdlog >>

(* ------------------------------- start -------------------------------- *)

\* The main thread is inside the try block of start (the control loop).
InLoop == main.pc \in {"sleep", "P1", "P2", "P3", "P3w", "P4", "P5", "P6", "P7", "P8"}

\* A write of the main thread to PlaybackState or the outputs while some
\* actor holds the lock is recorded in the lock holder's snapshot.
Dirty == IF snap.held THEN [snap EXCEPT !.dirty = TRUE] ELSE snap

\* An exception inside the try block: the finally clause calls __del__.
ToFinally == [pc |-> "T1", pid |-> -1, target |-> None, caller |-> "finally"]

\* Clear the screen, set up the GPIO channels, every output low.
StartSetup ==
    /\ main.pc = "setup"
    /\ gpio' = "setup"
    /\ out' = AllLow
    /\ main' = [main EXCEPT !.pc = "autostart"]
    /\ UNCHANGED << parse, ctor, cfg, _p, _active_vid, _splashproc, _mutex, proc, sv, npress,
                    tdcount, tdlog, snap, last >>

\* Mutant of StartAutostart: the first video is played whether or not a
\* splash image is configured.
StartAutostart_IgnoresSplash ==
    /\ main.pc = "autostart"
    /\ IF cfg.autostart
       THEN /\ sv' = [sv EXCEPT ![Main] = [IdleSv EXCEPT !.pc = "acquire",
                                                         !.pin = in_pins[1]]]
            /\ main' = [main EXCEPT !.pc = "autostart_sv"]
            /\ UNCHANGED _splashproc
       ELSE /\ main' = [main EXCEPT !.pc = "detect"]
            /\ UNCHANGED << sv, _splashproc >>
    /\ UNCHANGED << parse, ctor, cfg, _p, _active_vid, _mutex, out, gpio, proc, npress,
                    tdcount, tdlog, snap, last >>

\* if self.autostart: show the splash image, or play the first video.
StartAutostart ==
    /\ main.pc = "autostart"
    /\ IF cfg.autostart /\ cfg.splash
       THEN /\ _splashproc' = "running"
            /\ main' = [main EXCEPT !.pc = "detect"]
            /\ UNCHANGED sv
       ELSE IF cfg.autostart
            THEN /\ sv' = [sv EXCEPT ![Main] = [IdleSv EXCEPT !.pc = "acquire",
                                                              !.pin = in_pins[1]]]
                 /\ main' = [main EXCEPT !.pc = "autostart_sv"]
                 /\ UNCHANGED _splashproc
            ELSE /\ main' = [main EXCEPT !.pc = "detect"]
                 /\ UNCHANGED << sv, _splashproc >>
    /\ UNCHANGED << parse, ctor, cfg, _p, _active_vid, _mutex, out, gpio, proc, npress,
                    tdcount, tdlog, snap, last >>

\* Enable event detection on each input pin.
StartDetect ==
    /\ main.pc = "detect"
    /\ gpio' = "detect"
    /\ main' = [main EXCEPT !.pc = "sleep"]
    /\ UNCHANGED << parse, ctor, cfg, _p, _active_vid, _splashproc, _mutex, out, proc, sv, npress,
                    tdcount, tdlog, snap, last >>

\* An error (or an interrupt) in start before the try block is entered:
\* start raises and its finally clause is not run.
StartError ==
    /\ main.pc \in {"setup", "autostart", "detect"}
    /\ main' = [main EXCEPT !.pc = "exited"]
    /\ UNCHANGED << parse, ctor, cfg, _p, _active_vid, _splashproc, _mutex, out, gpio, proc, sv,
                    npress, tdcount, tdlog, snap, last >>

\* KeyboardInterrupt in the control loop.
Interrupt ==
    /\ InLoop
    /\ main' = ToFinally
    /\ UNCHANGED << parse, ctor, cfg, _p, _active_vid, _splashproc, _mutex, out, gpio, proc, sv,
                    npress, tdcount, tdlog, snap, last >>

\* time.sleep(0.5); if not self.loop: pid = -1
PollWake ==
    /\ main.pc = "sleep"
    /\ ~cfg.loop
    /\ main' = [main EXCEPT !.pc = "P1", !.pid = -1]
    /\ UNCHANGED << parse, ctor, cfg, _p, _active_vid, _splashproc, _mutex, out, gpio, proc, sv,
                    npress, tdcount, tdlog, snap, last >>

\* if self._p:
PollHasProc ==
    /\ main.pc = "P1"
    /\ main' = [main EXCEPT !.pc = IF _p # None THEN "P2" ELSE "P4"]
    /\ UNCHANGED << parse, ctor, cfg, _p, _active_vid, _splashproc, _mutex, out, gpio, proc, sv,
                    npress, tdcount, tdlog, snap, last >>

\* pid = self._p.pid
PollReadPid ==
    /\ main.pc = "P2"
    /\ main' = IF _p = None THEN ToFinally ELSE [main EXCEPT !.pc = "P3", !.pid = _p]
    /\ UNCHANGED << parse, ctor, cfg, _p, _active_vid, _splashproc, _mutex, out, gpio, proc, sv,
                    npress, tdcount, tdlog, snap, last >>

\* self._p.communicate(): the call is made on the handle held now.
PollCommunicate ==
    /\ main.pc = "P3"
    /\ main' = IF _p = None THEN ToFinally ELSE [main EXCEPT !.pc = "P3w", !.target = _p]
    /\ UNCHANGED << parse, ctor, cfg, _p, _active_vid, _splashproc, _mutex, out, gpio, proc, sv,
                    npress, tdcount, tdlog, snap, last >>

\* communicate() returns once its process has ended (by itself, or some
\* time after it was sent SIGINT), and has waited for it.
PollReap ==
    /\ main.pc = "P3w"
    /\ proc[main.target].st \in {"signalled", "exited", "reaped"}
    /\ proc' = [proc EXCEPT ![main.target].st = "reaped"]
    /\ main' = [main EXCEPT !.pc = "P4", !.target = None]
    /\ UNCHANGED << parse, ctor, cfg, _p, _active_vid, _splashproc, _mutex, out, gpio, sv,
                    npress, tdcount, tdlog, snap, last >>

\* if self._p: (the second test)
PollStillProc ==
    /\ main.pc = "P4"
    /\ main' = [main EXCEPT !.pc = IF _p # None THEN "P5" ELSE "sleep", 
                            !.pid = IF _p # None THEN @ ELSE -1]
    /\ UNCHANGED << parse, ctor, cfg, _p, _active_vid, _splashproc, _mutex, out, gpio, proc, sv,
                    npress, tdcount, tdlog, snap, last >>

\* if self._p.pid == pid:
PollSamePid ==
    /\ main.pc = "P5"
    /\ main' = IF _p = None THEN ToFinally
               ELSE [main EXCEPT !.pc = IF _p = main.pid THEN "P6" ELSE "sleep", !.pid = -1]
    /\ UNCHANGED << parse, ctor, cfg, _p, _active_vid, _splashproc, _mutex, out, gpio, proc, sv,
                    npress, tdcount, tdlog, snap, last >>

\* Reset LEDs
PollResetLeds ==
    /\ main.pc = "P6"
    /\ out' = AllLow
    /\ main' = [main EXCEPT !.pc = "P7"]
    /\ snap' = Dirty
    /\ UNCHANGED << parse, ctor, cfg, _p, _active_vid, _splashproc, _mutex, gpio, proc, sv,
                    npress, tdcount, tdlog, last >>

\* self._active_vid = None
PollResetVid ==
    /\ main.pc = "P7"
    /\ _active_vid' = NoVid
    /\ main' = [main EXCEPT !.pc = "P8"]
    /\ snap' = Dirty
    /\ UNCHANGED << parse, ctor, cfg, _p, _splashproc, _mutex, out, gpio, proc, sv,
                    npress, tdcount, tdlog, last >>

\* self._p = None
PollResetProc ==
    /\ main.pc = "P8"
    /\ _p' = None
    /\ main' = [main EXCEPT !.pc = "sleep"]
    /\ snap' = Dirty
    /\ UNCHANGED << parse, ctor, cfg, _active_vid, _splashproc, _mutex, out, gpio, proc, sv,
                    npress, tdcount, tdlog, last >>

(* ------------------------------ __del__ ------------------------------- *)

\* Mutant of PlayerSignal: the player is killed outright.
PlayerSignal_Kill == "SIGKILL"

\* The signal __del__ sends to the player process (through _kill_process).
PlayerSignal == "SIGINT"

\* The signal __del__ sends to the splash process.
SplashSignal == "SIGKILL"

\* __del__ has run to its end, or has been left by an exception: start's
\* finally re-raises and start is over; a finalizer ends with the object.
AfterDel == [main EXCEPT !.pc = IF main.caller = "finally" THEN "exited" ELSE "terminated"]

\* The callback contexts end with the looper process.
SvAfter(m) ==
    IF m.pc \in {"terminated", "killed"}
    THEN [a \in Actors |-> [IdleSv EXCEPT !.pc = "ended"]]
    ELSE sv

\* if not self.debug: os.system('tput cnorm')
DelTerminal ==
    /\ main.pc = "T1"
    /\ tdcount' = tdcount + 1
    /\ tdlog' = IF cfg.debug THEN << >> ELSE << "terminal" >>
    /\ main' = [main EXCEPT !.pc = "T2"]
    /\ UNCHANGED << parse, ctor, cfg, _p, _active_vid, _splashproc, _mutex, out, gpio, proc, sv,
                    npress, snap, last >>

\* GPIO.cleanup(): every channel used becomes an input again.
DelCleanup ==
    /\ main.pc = "T2"
    /\ gpio' = "cleaned"
    /\ out' = AllLow
    /\ tdlog' = Append(tdlog, "outputs")
    /\ main' = [main EXCEPT !.pc = "T3a"]
    /\ snap' = Dirty
    /\ UNCHANGED << parse, ctor, cfg, _p, _active_vid, _splashproc, _mutex, proc, sv, npress, tdcount, last >>

\* _kill_process: if self._p is not None
DelKillCheck ==
    /\ main.pc = "T3a"
    /\ main' = [main EXCEPT !.pc = IF _p # None THEN "T3b" ELSE "T4"]
    /\ UNCHANGED << parse, ctor, cfg, _p, _active_vid, _splashproc, _mutex, out, gpio, proc, sv,
                    npress, tdcount, tdlog, snap, last >>

\* _kill_process: os.killpg(os.getpgid(self._p.pid), signal.SIGINT)
DelKillSignal ==
    /\ main.pc = "T3b"
    /\ IF _p = None \/ Gone(_p)
       THEN main' = AfterDel /\ UNCHANGED << proc, tdlog >>
       ELSE /\ proc' = Signalled(_p)
            /\ tdlog' = Append(tdlog, "player:" \o PlayerSignal)
            /\ main' = [main EXCEPT !.pc = "T3c"]
    /\ sv' = SvAfter(main')
    /\ UNCHANGED << parse, ctor, cfg, _p, _active_vid, _splashproc, _mutex, out, gpio,
                    npress, tdcount, snap, last >>

\* _kill_process: self._p = None
DelKillClear ==
    /\ main.pc = "T3c"
    /\ _p' = None
    /\ main' = [main EXCEPT !.pc = "T4"]
    /\ snap' = Dirty
    /\ UNCHANGED << parse, ctor, cfg, _active_vid, _splashproc, _mutex, out, gpio, proc, sv,
                    npress, tdcount, tdlog, last >>

\* if self._splashproc: os.killpg(os.getpgid(self._splashproc.pid), SIGKILL).
\* The splash process was started without a session of its own, so its
\* process group is the looper's: the looper is killed with it.
DelKillSplash ==
    /\ main.pc = "T4"
    /\ IF _splashproc # "None"
       THEN /\ _splashproc' = "killed"
            /\ tdlog' = Append(tdlog, "splash:" \o SplashSignal)
            /\ main' = [main EXCEPT !.pc = "killed"]
       ELSE /\ main' = AfterDel
            /\ UNCHANGED << _splashproc, tdlog >>
    /\ sv' = SvAfter(main')
    /\ UNCHANGED << parse, ctor, cfg, _p, _active_vid, _mutex, out, gpio, proc, npress,
                    tdcount, snap, last >>

\* start is over and the object is no longer referenced: the interpreter
\* calls __del__ as the finalizer.
Finalize ==
    /\ main.pc = "exited"
    /\ main' = [main EXCEPT !.pc = "T1", !.caller = "finalizer"]
    /\ UNCHANGED << parse, ctor, cfg, _p, _active_vid, _splashproc, _mutex, out, gpio, proc, sv,
                    npress, tdcount, tdlog, snap, last >>

\* The interpreter exits without finalizing the object.
Exit ==
    /\ main.pc = "exited"
    /\ main' = [main EXCEPT !.pc = "terminated"]
    /\ sv' = SvAfter(main')
    /\ UNCHANGED << parse, ctor, cfg, _p, _active_vid, _splashproc, _mutex, out, gpio, proc,
                    npress, tdcount, tdlog, snap, last >>

(* ---------------------------- environment ----------------------------- *)

\* A player started without --loop reaches the end of its video.
PlayerEnds(q) ==
    /\ proc[q].st = "running"
    /\ ~cfg.loop
    /\ proc' = [proc EXCEPT ![q] = [st |-> "exited", vid |-> NoVid]]
    /\ UNCHANGED << parse, ctor, cfg, _p, _active_vid, _splashproc, _mutex, out, gpio, sv, main,
                    npress, tdcount, tdlog, snap, last >>

(* --------------------------- specification ---------------------------- *)

SwitchVid(a) ==
    \/ SvAcquire(a) \/ SvOutputs(a) \/ SvCompare(a) \/ SvKillCheck(a)
    \/ SvKillSignal(a) \/ SvKillClear(a) \/ SvPopen(a) \/ SvAssignP(a) \/ SvAssignVid(a)

Start == StartSetup \/ StartAutostart \/ StartDetect \/ StartError \/ Interrupt

Poll ==
    \/ PollWake \/ PollHasProc \/ PollReadPid \/ PollCommunicate \/ PollReap
    \/ PollStillProc \/ PollSamePid \/ PollResetLeds \/ PollResetVid \/ PollResetProc

Del == DelTerminal \/ DelCleanup \/ DelKillCheck \/ DelKillSignal \/ DelKillClear \/ DelKillSplash

Next ==
    \/ \E a \in Callbacks, pin \in EventPins : Press(a, pin)
    \/ \E a \in Actors : SwitchVid(a)
    \/ Start
    \/ Poll
    \/ Del
    \/ Finalize
    \/ Exit
    \/ \E q \in Pids : PlayerEnds(q)

Spec == Init /\ [][Next]_vars

\* The runs with looping disabled.
InitNoLoop == Init /\ ~cfg.loop

\* The runs with looping disabled in which the control loop keeps running:
\* the main thread takes its next step of the poll whenever it can
\* (communicate() returns once its process has ended).
PollSpec == InitNoLoop /\ [][Next]_vars /\ WF_vars(Poll)

(* ----------------------------- _GpioParser ---------------------------- *)

\* The characters of a pin specification string: two digits, the minus
\* sign, the two separators and a letter.
Chars == {"0", "1", "-", ":", ",", "x"}
Digits == {"0", "1"}
DigitVal(c) == IF c = "1" THEN 1 ELSE 0

\* The strings given to --gpio-pins, as sequences of characters.
SpecStrings == UNION { [1..n -> Chars] : n \in 0..MaxSpecLen }

\* str.split(sep): the pieces of s between the occurrences of sep (one
\* piece, s itself, when sep does not occur: ''.split(',') is ['']).
RECURSIVE split(_, _)
split(s, sep) ==
    IF \A i \in 1..Len(s) : s[i] # sep
    THEN << s >>
    ELSE LET k == CHOOSE i \in 1..Len(s) : s[i] = sep /\ \A j \in 1..(i - 1) : s[j] # sep
         IN  << SubSeq(s, 1, k - 1) >> \o split(SubSeq(s, k + 1, Len(s)), sep)

\* int(t) does not raise ValueError: an optional sign followed by one or
\* more digits (over Chars: no blanks, '+' or '_').
IsNumeric(t) ==
    LET body == IF Len(t) > 0 /\ t[1] = "-" THEN Tail(t) ELSE t
    IN  Len(body) > 0 /\ \A i \in 1..Len(body) : body[i] \in Digits

\* The value of a string of digits, in base ten.
RECURSIVE Magnitude(_)
Magnitude(t) ==
    IF t = << >> THEN 0
    ELSE 10 * Magnitude(SubSeq(t, 1, Len(t) - 1)) + DigitVal(t[Len(t)])

\* int(t), for a t on which it does not raise.
int(t) == IF t[1] = "-" THEN 0 - Magnitude(Tail(t)) ELSE Magnitude(t)

\* The test of line 25, '0 == len(pair_split) > 2': a chained comparison,
\* 0 == len(pair_split) and len(pair_split) > 2.
InvalidFormat(pair_split) == 0 = Len(pair_split) /\ Len(pair_split) > 2

\* 'in_pin in gpio_dict'.
InDict(gpio_dict, in_pin) == \E k \in 1..Len(gpio_dict) : gpio_dict[k].in = in_pin

ParseRaise(message) == parse' = [parse EXCEPT !.pc = "error", !.error = message]

\* gpio_dict = {}; pin_pairs = values.split(',').
ParseCall ==
    /\ parse.pc = "call"
    /\ parse' = [parse EXCEPT !.pc = "loop", !.pin_pairs = split(parse.values, ","),
                              !.i = 1, !.gpio_dict = << >>]
    /\ UNCHANGED << ctor, cfg, _p, _active_vid, _splashproc, _mutex, out, gpio, proc,
                    sv, main, npress, tdcount, tdlog, snap, last >>

\* One iteration of 'for pair in pin_pairs'.  An output pin is << >> for
\* None and << n >> for the integer n.
ParsePair ==
    /\ parse.pc = "loop" /\ parse.i <= Len(parse.pin_pairs)
    /\ LET pair_split == split(parse.pin_pairs[parse.i], ":")
       IN  IF InvalidFormat(pair_split)
           THEN ParseRaise("Invalid GPIO pin format")
           ELSE IF ~IsNumeric(pair_split[1])
           THEN ParseRaise("GPIO input pin must be numeric integer")
           ELSE IF Len(pair_split) >= 2 /\ ~IsNumeric(pair_split[2])
           THEN ParseRaise("GPIO output pin must be numeric integer")
           ELSE IF InDict(parse.gpio_dict, int(pair_split[1]))
           THEN ParseRaise("Duplicate GPIO input pin")
           ELSE parse' = [parse EXCEPT
                    !.i = @ + 1,
                    !.gpio_dict = Append(@,
                        [ in  |-> int(pair_split[1]),
                          out |-> IF Len(pair_split) >= 2
                                  THEN << int(pair_split[2]) >> ELSE << >> ])]
    /\ UNCHANGED << ctor, cfg, _p, _active_vid, _splashproc, _mutex, out, gpio, proc,
                    sv, main, npress, tdcount, tdlog, snap, last >>

\* setattr(namespace, self.dest, gpio_dict).
ParseSet ==
    /\ parse.pc = "loop" /\ parse.i > Len(parse.pin_pairs)
    /\ parse' = [parse EXCEPT !.pc = "done"]
    /\ UNCHANGED << ctor, cfg, _p, _active_vid, _splashproc, _mutex, out, gpio, proc,
                    sv, main, npress, tdcount, tdlog, snap, last >>

\* The parser is called on every specification string; no looper exists yet.
ParseInit ==
    /\ parse \in { [NoParse EXCEPT !.pc = "call", !.values = v] : v \in SpecStrings }
    /\ ctor = NoCtor
    /\ cfg = CHOOSE c \in Configs : TRUE
    /\ _p = None
    /\ _active_vid = NoVid
    /\ _splashproc = "None"
    /\ _mutex = Unlocked
    /\ out = [o \in OutPins |-> "LOW"]
    /\ gpio = "unset"
    /\ proc = [q \in Pids |-> [st |-> "none", vid |-> NoVid]]
    /\ sv = [a \in Actors |-> IdleSv]
    /\ main = [pc |-> "setup", pid |-> -1, target |-> None, caller |-> "none"]
    /\ npress = 0
    /\ tdcount = 0
    /\ tdlog = << >>
    /\ snap = NoSnap
    /\ last = [pin |-> 0, result |-> "none"]

ParseNext ==
    \/ ParseCall
    \/ ParsePair
    \/ ParseSet

ParseSpec == ParseInit /\ [][ParseNext]_vars

(* ------------------------------ __init__ ------------------------------ *)

\* The default pin mapping, in insertion order.
_GPIO_PIN_DEFAULT ==
    << [in |-> 26, out |-> 21], [in |-> 19, out |-> 20], [in |-> 13, out |-> 16],
       [in |-> 6, out |-> 12] >>

_VIDEO_EXTS == {".mp4", ".m4v", ".mov", ".avi", ".mkv"}

\* The file names of the model, in sorted order, and os.path.splitext(f)[1].
Files == << "a.mp4", "b.mkv", "c.txt" >>
FileSet == { Files[k] : k \in 1..Len(Files) }
Ext(f) == CASE f = "a.mp4" -> ".mp4" [] f = "b.mkv" -> ".mkv" [] OTHER -> ".txt"

\* sorted(os.listdir(video_dir)), keeping the files with a video extension.
RECURSIVE VideosOfDir(_, _)
VideosOfDir(listing, k) ==
    IF k > Len(Files) THEN << >>
    ELSE (IF Files[k] \in listing /\ Ext(Files[k]) \in _VIDEO_EXTS
          THEN << Files[k] >> ELSE << >>) \o VideosOfDir(listing, k + 1)

\* The arguments of a constructor call: videos is None (not given) or a
\* sequence, () included as main() passes it; gpio_pins is None or a
\* mapping; the directory listing, the paths that exist, the audio choice.
CtorArgs ==
    [ videos : {[given |-> FALSE, list |-> << >>]}
                 \cup { [given |-> TRUE, list |-> l] :
                          l \in UNION { [1..n -> FileSet] : n \in 0..MaxVideos } },
      gpio_pins : {[given |-> FALSE, dict |-> << >>]}
                    \cup { [given |-> TRUE, dict |-> SubSeq(_GPIO_PIN_DEFAULT, 1, n)] :
                             n \in 0..MaxPins },
      listdir : SUBSET FileSet,
      exists : SUBSET FileSet,
      audio : {"hdmi", "mono"} ]

CtorRaise(exception) == ctor' = [ctor EXCEPT !.pc = "error", !.error = exception]

\* Lines 72-77: use the default pins if none are given.
CtorPins ==
    /\ ctor.pc = "pins"
    /\ ctor' = [ctor EXCEPT
            !.pc = "videos",
            !.self.gpio_pins = IF ctor.args.gpio_pins.given
                               THEN ctor.args.gpio_pins.dict ELSE _GPIO_PIN_DEFAULT]
    /\ UNCHANGED << parse, cfg, _p, _active_vid, _splashproc, _mutex, out, gpio, proc,
                    sv, main, npress, tdcount, tdlog, snap, last >>

\* Lines 80-91: the videos given (each must exist), or those of video_dir.
CtorVideos ==
    /\ ctor.pc = "videos"
    /\ LET videos == ctor.args.videos
           found == VideosOfDir(ctor.args.listdir, 1)
       IN  IF videos.given /\ Len(videos.list) > 0
           THEN IF \E k \in 1..Len(videos.list) : videos.list[k] \notin ctor.args.exists
                THEN ctor' = [ctor EXCEPT !.pc = "error", !.error = "FileNotFoundError",
                                          !.self.videos = videos.list]
                ELSE ctor' = [ctor EXCEPT !.pc = "enough", !.self.videos = videos.list]
           ELSE IF Len(found) = 0
                THEN ctor' = [ctor EXCEPT !.pc = "error", !.error = "Exception",
                                          !.self.videos = found]
                ELSE ctor' = [ctor EXCEPT !.pc = "enough", !.self.videos = found]
    /\ UNCHANGED << parse, cfg, _p, _active_vid, _splashproc, _mutex, out, gpio, proc,
                    sv, main, npress, tdcount, tdlog, snap, last >>

\* Line 94: assert len(videos) <= len(self.gpio_pins), on the argument
\* videos (len(None) raises TypeError).
CtorEnoughPins ==
    /\ ctor.pc = "enough"
    /\ IF ~ctor.args.videos.given
       THEN CtorRaise("TypeError")
       ELSE IF ~(Len(ctor.args.videos.list) <= Len(ctor.self.gpio_pins))
       THEN CtorRaise("AssertionError")
       ELSE ctor' = [ctor EXCEPT !.pc = "options"]
    /\ UNCHANGED << parse, cfg, _p, _active_vid, _splashproc, _mutex, out, gpio, proc,
                    sv, main, npress, tdcount, tdlog, snap, last >>

\* Lines 97-107: the audio choice is checked and the options are stored.
CtorOptions ==
    /\ ctor.pc = "options"
    /\ IF ctor.args.audio \notin {"hdmi", "local", "both"}
       THEN CtorRaise("AssertionError")
       ELSE ctor' = [ctor EXCEPT !.pc = "done"]
    /\ UNCHANGED << parse, cfg, _p, _active_vid, _splashproc, _mutex, out, gpio, proc,
                    sv, main, npress, tdcount, tdlog, snap, last >>

\* The constructor is called with every combination of arguments.
CtorInit ==
    /\ parse = NoParse
    /\ ctor \in { [NoCtor EXCEPT !.pc = "pins", !.args = a] : a \in CtorArgs }
    /\ cfg = CHOOSE c \in Configs : TRUE
    /\ _p = None
    /\ _active_vid = NoVid
    /\ _splashproc = "None"
    /\ _mutex = Unlocked
    /\ out = [o \in OutPins |-> "LOW"]
    /\ gpio = "unset"
    /\ proc = [q \in Pids |-> [st |-> "none", vid |-> NoVid]]
    /\ sv = [a \in Actors |-> IdleSv]
    /\ main = [pc |-> "setup", pid |-> -1, target |-> None, caller |-> "none"]
    /\ npress = 0
    /\ tdcount = 0
    /\ tdlog = << >>
    /\ snap = NoSnap
    /\ last = [pin |-> 0, result |-> "none"]

CtorNext ==
    \/ CtorPins
    \/ CtorVideos
    \/ CtorEnoughPins
    \/ CtorOptions

CtorSpec == CtorInit /\ [][CtorNext]_vars

(* ------------------------------- claims ------------------------------- *)

\* The player processes that were started and have neither exited nor been
\* sent a stop signal.
LivePlayers == { q \in Pids : Live(q) }

\* C1: there are never two live player processes, and (whenever no
\* transition is in progress) every live player process is the one held in
\* _p, under every interleaving of pin events, the poll and teardown.
C1_OneLivePlayer ==
    /\ Cardinality(LivePlayers) <= 1
    /\ _mutex = Unlocked => \A q \in LivePlayers : q = _p

\* The handle _p names a player that was started and has not been stopped
\* (one that has ended by itself counts until the poll has noticed it).
Playing == _p # None /\ proc[_p].st \in {"running", "exited"}

\* C2: whenever no transition is in progress (the lock is free), an output
\* pin is asserted only if the video bound to its input pin is the active
\* selection and its player process is held and has not been stopped.
C2_OutputsReflectPlaying ==
    _mutex = Unlocked =>
        \A i \in 1..Len(gpio_pins) :
            (gpio_pins[i].out # None /\ out[gpio_pins[i].out] = "HIGH") =>
                /\ HasVideo(gpio_pins[i].in)
                /\ Filename(gpio_pins[i].in) = _active_vid
                /\ Playing

\* The output pin bound to an input pin (None when it has none).
OutPinOf(pin) == IF IndexOf(pin) = 0 THEN None ELSE gpio_pins[IndexOf(pin)].out

\* The output pins that are asserted.
Asserted(o) == { x \in OutPins : o[x] = "HIGH" }

\* Actor a completes a transition in this step: switch_vid returns after it
\* has started the player and recorded the selection.
Completes(a) == sv[a].pc = "assign_vid" /\ sv'[a].pc = "idle"

RepeatPress(a) ==
    /\ sv[a].pc = "compare" /\ sv'[a].pc \notin {"compare", "ended"}
    /\ HasVideo(sv[a].pin) /\ Filename(sv[a].pin) = _active_vid
    /\ ~cfg.restart_on_press

\* C4: with restart_on_press off, an event on the pin of the active video
\* changes neither the active selection nor the process handle, and issues
\* no Start and no Stop: the call returns from the comparison.
C4_Idempotent ==
    [][\A a \in Actors : RepeatPress(a) =>
          /\ sv'[a].pc = "idle" /\ last'.result = "noop"
          /\ _p' = _p /\ _active_vid' = _active_vid /\ proc' = proc
          /\ sv[a].stops = 0 /\ sv[a].starts = 0
          /\ snap.dirty \/ (_p = snap.p /\ _active_vid = snap.vid)]_vars

\* The second pin event of a run was for the video that is playing, and was
\* a no-op.
C4_Witness ==
    /\ ~cfg.restart_on_press /\ npress = 2
    /\ last.result = "noop" /\ _mutex = Unlocked
    /\ _active_vid = Filename(last.pin) /\ Playing

\* Actor a, handling an event for the video that was active at the
\* comparison with restart_on_press on, leaves switch_vid in this step.
RestartEnds(a) ==
    /\ cfg.restart_on_press /\ sv[a].wasActive
    /\ sv[a].pc \in {"kill_check", "kill_signal", "kill_clear", "popen", "assign_p", "assign_vid"}
    /\ sv'[a].pc = "idle"

\* C5: with restart_on_press on, an event on the pin of the active video
\* always issues exactly one Stop and then exactly one Start (a Start that
\* fails to launch counts as issued), and the active selection is the same
\* afterwards.  Stated for the transitions that neither the teardown nor
\* a poll reset interferes with.
C5_RestartStopStart ==
    [][\A a \in Actors : (RestartEnds(a) /\ tdcount = 0 /\ ~snap.dirty) =>
          /\ sv[a].pc \in {"popen", "assign_vid"}
          /\ sv[a].stops = 1
          /\ sv[a].pc = "assign_vid" => sv[a].starts = 1
          /\ _active_vid' = Filename(sv[a].pin)]_vars

\* C8 (the consistency it ends with): when the launch of the player fails
\* during a transition, the state left behind has no active selection
\* without a player process of its own.
C8_LaunchFailureKeepsState ==
    [][\A a \in Actors :
          (sv[a].pc = "popen" /\ sv'[a].pc = "idle" /\ last'.result = "LaunchError") =>
              /\ _active_vid' # NoVid => (_p' # None /\ proc'[_p'].st # "signalled")
              /\ snap.dirty \/ (_p' = snap.p /\ _active_vid' = snap.vid)]_vars

\* Actor a is inside the critical section of switch_vid.
InCS(a) == sv[a].pc \notin {"idle", "acquire", "ended"}

\* The outcome of processing one event for pin fully, alone, from the
\* PlaybackState and outputs s: result is how the call ended and newp the
\* process it started.
SeqSwitchVid(s, pin, result, newp) ==
    IF result = "GpioError" THEN [p |-> s.p, vid |-> s.vid, out |-> s.out]
    ELSE [ p   |-> CASE result = "ok" -> newp
                     [] result = "LaunchError" -> None
                     [] OTHER -> s.p,
           vid |-> IF result = "ok" THEN cfg.videos[IndexOf(pin)] ELSE s.vid,
           out |-> [o \in OutPins |-> IF o = OutPinOf(pin) THEN "HIGH" ELSE "LOW"] ]

\* C6: the lock orders the transitions of concurrent pin events totally.
\* At most one actor is inside the critical section, and it is the lock
\* holder; and when a callback's switch_vid returns (the main thread not
\* having written in between) the state is the one that processing that
\* event fully from the state at its lock acquisition gives, with the
\* player held before no longer live once a new one has been started.
C6_Serialized ==
    /\ [](/\ Cardinality({a \in Actors : InCS(a)}) <= 1
          /\ \A a \in Actors : InCS(a) => _mutex = a)
    /\ [][\A a \in Actors :
            (InCS(a) /\ sv'[a].pc = "idle" /\ ~snap.dirty) =>
                /\ [p |-> _p', vid |-> _active_vid', out |-> out']
                     = SeqSwitchVid(snap, sv[a].pin, last'.result, sv[a].newp)
                /\ (last'.result = "ok" /\ snap.p # None) => ~Live(snap.p)]_vars

\* Two events on different pins are in flight: one is inside the critical
\* section and the other waits for the lock.
C6_Witness ==
    \E a, b \in Callbacks :
        /\ InCS(a) /\ sv[a].pc = "assign_p"
        /\ sv[b].pc = "acquire" /\ sv[b].pin # sv[a].pin

\* Idle: no active selection, no process handle, every output deasserted.
Idle == _p = None /\ _active_vid = NoVid /\ out = AllLow

\* The player of the active video has ended by itself and the state still
\* names it; no pin event is being handled.
NaturalExitPending ==
    /\ ~cfg.loop /\ InLoop
    /\ _active_vid # NoVid
    /\ _p # None /\ proc[_p].st \in {"exited", "reaped"}
    /\ \A a \in Actors : sv[a].pc = "idle"

\* C7: with loop disabled, once the player of the active video has exited
\* naturally, the control loop (as long as it keeps running) resets the
\* state to Idle without any new pin event: unless a new pin event arrives
\* or the loop is interrupted, Idle eventually holds.
C7_PollResetsToIdle ==
    \A n \in 0..MaxPress :
        (NaturalExitPending /\ npress = n) ~> (Idle \/ ~InLoop \/ npress # n)

\* C9: the teardown sequence is entered at most once in a run (and so not
\* more than the once the claim states), whichever way the run ends.
C9_TeardownOnce == tdcount <= 1

\* The place of a teardown step in the order the claim gives.
StepRank(step) ==
    CASE step = "terminal" -> 1
      [] step = "outputs" -> 2
      [] step \in {"player:SIGINT", "player:SIGKILL"} -> 3
      [] OTHER -> 4

\* The steps a teardown has performed are in the order terminal, outputs,
\* player, splash; the terminal is restored first (unless in debug mode) and
\* the outputs are deasserted before any process is signalled.
TeardownOrdered ==
    /\ \A i, j \in 1..Len(tdlog) : i < j => StepRank(tdlog[i]) < StepRank(tdlog[j])
    /\ \A i \in 1..Len(tdlog) :
          /\ StepRank(tdlog[i]) >= 2 => (cfg.debug \/ tdlog[1] = "terminal")
          /\ StepRank(tdlog[i]) >= 3 => (\E j \in 1..i : tdlog[j] = "outputs") /\ out = AllLow

Entries(values) == split(values, ",")
Fields(entry) == split(entry, ":")

\* A pin specifier that is a valid non-negative integer.
IsPinNumber(t) == IsNumeric(t) /\ int(t) >= 0

\* A specification whose entries all have the form in or in:out with valid
\* non-negative integers, and in which no input pin occurs twice.
WellFormed(values) ==
    /\ \A k \in 1..Len(Entries(values)) :
          LET f == Fields(Entries(values)[k])
          IN  Len(f) \in {1, 2} /\ \A n \in 1..Len(f) : IsPinNumber(f[n])
    /\ \A k, l \in 1..Len(Entries(values)) :
          k # l => int(Fields(Entries(values)[k])[1]) # int(Fields(Entries(values)[l])[1])

\* The mapping input pin -> optional output pin of a well-formed
\* specification, in configuration order.
Mapping(values) ==
    [ k \in 1..Len(Entries(values)) |->
        LET f == Fields(Entries(values)[k])
        IN  [ in |-> int(f[1]), out |-> IF Len(f) = 2 THEN << int(f[2]) >> ELSE << >> ] ]

\* C12: the parser raises an error on every specification that is not
\* well-formed (no GPIO call having been made), and yields the mapping in
\* configuration order on every other one.
C12_ParserRejectsMalformed ==
    /\ parse.pc = "done" =>
          /\ WellFormed(parse.values)
          /\ parse.gpio_dict = Mapping(parse.values)
          /\ gpio = "unset"
    /\ parse.pc = "error" => (~WellFormed(parse.values) /\ gpio = "unset")

\* C11: a constructor call that does not fail yields a looper with at most
\* as many videos as input-pin bindings, whether the videos were given as
\* a list or enumerated from the video directory.
C11_VideosWithinPins ==
    ctor.pc = "done" => Len(ctor.self.videos) <= Len(ctor.self.gpio_pins)

\* C13: when start is about to enable event detection (no pin event has
\* been handled yet), the machine is in Playing(0) with the first pin's
\* output asserted and no other if autostart is on without a splash image;
\* it is Idle with the splash shown if autostart is on with a splash image;
\* and it is Idle if autostart is off.
C13_StartupPolicy ==
    (main.pc = "detect") =>
        /\ npress = 0 /\ gpio = "setup" /\ _mutex = Unlocked
        /\ (cfg.autostart /\ ~cfg.splash) =>
              /\ _active_vid = cfg.videos[1]
              /\ _p # None /\ proc[_p].st \in {"running", "exited"}
              /\ \A q \in Pids \ {_p} : proc[q].st = "none"
              /\ out = [o \in OutPins |-> IF o = OutPinOf(in_pins[1]) THEN "HIGH" ELSE "LOW"]
              /\ _splashproc = "None"
        /\ (cfg.autostart /\ cfg.splash) =>
              Idle /\ _splashproc = "running" /\ \A q \in Pids : proc[q].st = "none"
        /\ ~cfg.autostart =>
              Idle /\ _splashproc = "None" /\ \A q \in Pids : proc[q].st = "none"

\* Autostart without a splash image has played the first video.
C13_Witness ==
    /\ main.pc = "detect" /\ cfg.autostart /\ ~cfg.splash
    /\ _p # None /\ proc[_p].st = "running" /\ _active_vid = cfg.videos[1]

\* C14: an event for a pin that is not in the input-pin mapping is a no-op:
\* when its switch_vid call ends, the active selection, the process handle
\* and every output are as they were when it took the lock, no player was
\* stopped or started, and no error was raised.
C14_UnknownPinIgnored ==
    [][\A a \in Actors :
          (InCS(a) /\ sv[a].pin = UnknownPin /\ sv'[a].pc = "idle" /\ ~snap.dirty) =>
              /\ _p' = snap.p /\ _active_vid' = snap.vid /\ out' = snap.out
              /\ proc' = proc /\ sv[a].stops = 0 /\ sv[a].starts = 0
              /\ last'.result = "noop"]_vars

\* C15: while the control loop runs, every step that writes PlaybackState
\* (the process handle or the active selection) is a step of the actor
\* that holds the lock, and the poll is not between its first read and its
\* last write of PlaybackState while another actor is inside the critical
\* section.
C15_AccessUnderLock ==
    /\ [][(InLoop /\ (_p' # _p \/ _active_vid' # _active_vid)) =>
             \E a \in Actors : _mutex = a /\ sv'[a] # sv[a]]_vars
    /\ [](main.pc \in {"P2", "P3", "P3w", "P4", "P5", "P6", "P7", "P8"} =>
             \A a \in Actors : ~InCS(a))

\* A teardown has run to its end (or was abandoned by an exception).
TeardownOver == tdcount >= 1 /\ main.pc \in {"exited", "terminated", "killed"}

\* C16: once teardown is over and no transition is in progress on any
\* callback context, no player process is left running (started and never
\* signalled) and every indicator output is deasserted.
C16_TeardownLeavesNothing ==
    (TeardownOver /\ \A a \in Actors : sv[a].pc \in {"idle", "ended"}) =>
        (LivePlayers = {} /\ out = AllLow)

\* C17: Stop is tolerant.  Called by a transition when no process is held
\* it does nothing, and called on a process that has already exited
\* (waited for by the poll or not) it succeeds: the transition goes on to
\* start the new player instead of raising.
C17_StopTolerant ==
    [][\A a \in Actors :
          /\ (sv[a].pc = "kill_check" /\ sv'[a] # sv[a] /\ _p = None) =>
                (sv'[a].pc \in {"popen", "ended"} /\ proc' = proc /\ _p' = None)
          /\ (sv[a].pc = "kill_signal" /\ sv'[a] # sv[a]
                /\ _p # None /\ proc[_p].st \in {"exited", "reaped"}) =>
                sv'[a].pc \in {"kill_clear", "ended"}]_vars

\* C18: with loop disabled, once a switch has completed (no transition is
\* in progress) and the player it started is held and still running, no
\* step of the poll clears the active selection or the process handle or
\* lowers an asserted output.
C18_NoResetWhileRunning ==
    [][(/\ ~cfg.loop /\ InLoop /\ main'.pc # main.pc
        /\ \A a \in Actors : sv[a].pc = "idle"
        /\ _p # None /\ Live(_p) /\ _active_vid = proc[_p].vid) =>
            (_p' = _p /\ _active_vid' = _active_vid /\ out' = out)]_vars

C20_ActiveIffHandle ==
    (_mutex = Unlocked /\ main.pc = "sleep" /\ \A a \in Actors : sv[a].pc = "idle") =>
        ((_active_vid # NoVid) <=> (_p # None))

====
